---- MODULE Spec2Model ----
(***************************************************************************)
(* Binance Futures testnet bot: the order command (cli.handle_order), the  *)
(* validation pipeline (bot.validators, bot.orders) and the signed REST    *)
(* client (bot.client).                                                    *)
(*                                                                         *)
(* Conventions of the model                                                *)
(*  - A Python str is a sequence of tokens.  Data strings (user input,     *)
(*    response text, literals they are compared with) are written one      *)
(*    character per token; a dict key is a single token.                   *)
(*  - A Python / JSON scalar is a tagged record [t, i, s]: t is the type   *)
(*    ("int", "float", "str", "none", or "absent" for a key that is not    *)
(*    in a dict), i the number, s the string.                              *)
(*  - Floats are modelled by the integers they are equal to (NaN and       *)
(*    fractions are outside the model).                                    *)
(*  - A dict that is iterated (the request params) is a sequence of        *)
(*    [k, v] records in insertion order.                                   *)
(***************************************************************************)
EXTENDS Integers, Sequences, FiniteSets, TLC

(* ------------------------------ bounds -------------------------------- *)
\* quantity, price and stop_price range over MinNum .. MaxNum
MaxNum == 1
\* the clock (time.time() * 1000) returns one of 1 .. MaxTime
MaxTime == 2

MinNum == 0 - MaxNum

(* --------------------------- Python values ---------------------------- *)
PyInt(n) == [t |-> "int", i |-> n, s |-> <<>>]
PyFloat(n) == [t |-> "float", i |-> n, s |-> <<>>]
PyStr(x) == [t |-> "str", i |-> 0, s |-> x]
PyNone == [t |-> "none", i |-> 0, s |-> <<>>]
Absent == [t |-> "absent", i |-> 0, s |-> <<>>]

\* bool(v): None, 0, 0.0 and "" are falsy
Truthy(v) ==
    CASE v.t \in {"none", "absent"} -> FALSE
      [] v.t \in {"int", "float"} -> v.i # 0
      [] OTHER -> Len(v.s) > 0

\* v != 0 in Python: only a number equal to zero compares equal to 0
PyNeZero(v) == ~(v.t \in {"int", "float"} /\ v.i = 0)

Digit(n) == <<"0", "1", "2", "3", "4", "5", "6", "7", "8", "9">>[n + 1]

RECURSIVE NatText(_)
NatText(n) == IF n < 10 THEN <<Digit(n)>> ELSE NatText(n \div 10) \o <<Digit(n % 10)>>

IntText(n) == IF n < 0 THEN <<"-">> \o NatText(0 - n) ELSE NatText(n)

\* str(v), also what an f-string renders
PyStrOf(v) ==
    CASE v.t = "int" -> IntText(v.i)
      [] v.t = "float" -> IntText(v.i) \o <<".", "0">>
      [] v.t = "str" -> v.s
      [] OTHER -> <<"N", "o", "n", "e">>

(* ------------------------------ str methods --------------------------- *)
IsSpace(c) == c \in {" ", "\t", "\n"}

RECURSIVE LStrip(_)
LStrip(x) == IF Len(x) > 0 /\ IsSpace(Head(x)) THEN LStrip(Tail(x)) ELSE x

RECURSIVE RStrip(_)
RStrip(x) ==
    IF Len(x) > 0 /\ IsSpace(x[Len(x)]) THEN RStrip(SubSeq(x, 1, Len(x) - 1)) ELSE x

\* str.strip()
Strip(x) == RStrip(LStrip(x))

UpperChar(c) ==
    CASE c = "a" -> "A" [] c = "b" -> "B" [] c = "c" -> "C" [] c = "d" -> "D"
      [] c = "e" -> "E" [] c = "g" -> "G" [] c = "i" -> "I" [] c = "k" -> "K"
      [] c = "l" -> "L" [] c = "m" -> "M" [] c = "o" -> "O" [] c = "p" -> "P"
      [] c = "r" -> "R" [] c = "s" -> "S" [] c = "t" -> "T" [] c = "u" -> "U"
      [] c = "y" -> "Y" [] OTHER -> c

\* str.upper()
Upper(x) == [n \in 1 .. Len(x) |-> UpperChar(x[n])]

IsDigit(c) == c \in {"0", "1", "2", "3", "4", "5", "6", "7", "8", "9"}

DigitVal(c) == CHOOSE n \in 0 .. 9 : Digit(n) = c

RECURSIVE DigitsVal(_)
DigitsVal(x) ==
    IF Len(x) = 0 THEN 0 ELSE 10 * DigitsVal(SubSeq(x, 1, Len(x) - 1)) + DigitVal(x[Len(x)])

\* whether int(str) accepts the text: blanks around, an optional sign, digits
IsIntLiteral(x) ==
    LET y == Strip(x)
        z == IF Len(y) > 0 /\ y[1] \in {"-", "+"} THEN Tail(y) ELSE y
    IN Len(z) > 0 /\ \A n \in 1 .. Len(z) : IsDigit(z[n])

IntLiteralVal(x) ==
    LET y == Strip(x)
        z == IF Len(y) > 0 /\ y[1] \in {"-", "+"} THEN Tail(y) ELSE y
    IN IF Len(y) > 0 /\ y[1] = "-" THEN 0 - DigitsVal(z) ELSE DigitsVal(z)

(* ------------------------------ exceptions ---------------------------- *)
NoExc == [kind |-> "none", status_code |-> 0, code |-> PyNone, msg |-> PyNone]

Raise(kind) == [kind |-> kind, status_code |-> 0, code |-> PyNone, msg |-> PyNone]

\* BinanceApiError(status_code, code, msg)
BinanceApiError(status_code, code, msg) ==
    [kind |-> "BinanceApiError", status_code |-> status_code, code |-> code, msg |-> msg]

(* ------------------------------ validators ---------------------------- *)
BUY == <<"B", "U", "Y">>
SELL == <<"S", "E", "L", "L">>
MARKET == <<"M", "A", "R", "K", "E", "T">>
LIMIT == <<"L", "I", "M", "I", "T">>
STOP_LIMIT == <<"S", "T", "O", "P", "_", "L", "I", "M", "I", "T">>
STOP == <<"S", "T", "O", "P">>
GTC == <<"G", "T", "C">>

\* each validator returns [ok, v]: ok = FALSE stands for raise ValidationError
normalize_symbol(symbol) ==
    LET s == Upper(Strip(symbol)) IN [ok |-> Len(s) > 0, v |-> s]

normalize_side(side) ==
    LET s == Upper(Strip(side)) IN [ok |-> s \in {BUY, SELL}, v |-> s]

normalize_order_type(order_type) ==
    LET t == Upper(Strip(order_type)) IN [ok |-> t \in {MARKET, LIMIT, STOP_LIMIT}, v |-> t]

validate_quantity_AcceptsZero(quantity) == [ok |-> ~(quantity.i < 0), v |-> quantity]

validate_quantity(quantity) == [ok |-> ~(quantity.i <= 0), v |-> quantity]

_validate_positive(value) == [ok |-> ~(value.i <= 0), v |-> value]

\* returns [ok, price, stop_price]
validate_price_and_stop_price(order_type, price, stop_price) ==
    IF order_type = LIMIT THEN
        IF price.t = "none" THEN [ok |-> FALSE, price |-> PyNone, stop_price |-> PyNone]
        ELSE [ok |-> _validate_positive(price).ok, price |-> price, stop_price |-> PyNone]
    ELSE IF order_type = STOP_LIMIT THEN
        IF price.t = "none" \/ stop_price.t = "none"
        THEN [ok |-> FALSE, price |-> PyNone, stop_price |-> PyNone]
        ELSE [ok |-> _validate_positive(price).ok /\ _validate_positive(stop_price).ok,
              price |-> price, stop_price |-> stop_price]
    ELSE [ok |-> TRUE, price |-> PyNone, stop_price |-> PyNone]

\* the first failing check raises; the later ones are then not evaluated
validate_order_request(a) ==
    LET sym == normalize_symbol(a.symbol)
        sd == normalize_side(a.side)
        ty == normalize_order_type(a.order_type)
        qty == validate_quantity(a.quantity)
        pr == validate_price_and_stop_price(ty.v, a.price, a.stop_price)
    IN [ok |-> sym.ok /\ sd.ok /\ ty.ok /\ qty.ok /\ pr.ok,
        symbol |-> sym.v, side |-> sd.v, order_type |-> ty.v, quantity |-> qty.v,
        price |-> pr.price, stop_price |-> pr.stop_price]

(* ------------------------------ dicts --------------------------------- *)
DictHas(d, k) == \E n \in 1 .. Len(d) : d[n].k = k

DictGet(d, k) == IF DictHas(d, k) THEN d[CHOOSE n \in 1 .. Len(d) : d[n].k = k].v ELSE Absent

\* d[k] = v: an existing key keeps its place, a new key goes last
DictSet(d, k, v) ==
    IF DictHas(d, k)
    THEN [n \in 1 .. Len(d) |-> IF d[n].k = k THEN [k |-> k, v |-> v] ELSE d[n]]
    ELSE Append(d, [k |-> k, v |-> v])

DictKeys(d) == {d[n].k : n \in 1 .. Len(d)}

\* the request keys in code point order, the order sorted() puts them in
KeyOrder ==
    <<"price", "quantity", "recvWindow", "side", "stopPrice", "symbol",
      "timeInForce", "timestamp", "type">>

\* sorted(params)
SortedKeys(d) == SelectSeq(KeyOrder, LAMBDA k : DictHas(d, k))

InsertionKeys(d) == [n \in 1 .. Len(d) |-> d[n].k]

\* "&".join(f"{k}={params[k]}" for k in keys)
RECURSIVE JoinItems(_, _)
JoinItems(d, keys) ==
    IF Len(keys) = 0 THEN <<>>
    ELSE LET item == <<Head(keys), "=">> \o PyStrOf(DictGet(d, Head(keys)))
         IN IF Len(keys) = 1 THEN item ELSE item \o <<"&">> \o JoinItems(d, Tail(keys))

(* ------------------------------ client -------------------------------- *)
\* recv_window default
RecvWindow == 5000

\* hmac.new(secret, query_string, sha256).hexdigest(): the digest is kept symbolic
_sign(api_secret, query_string) ==
    <<"hmac_sha256(">> \o api_secret \o <<",">> \o query_string \o <<")">>

\* params as place_order builds them; ok = FALSE stands for raise ValueError
place_order_params_TifAlways(symbol, side, order_type, quantity, price, stop_price, time_in_force) ==
    LET order_type_upper == Upper(order_type)
        binance_type == IF order_type_upper = STOP_LIMIT THEN STOP ELSE order_type_upper
        base == <<[k |-> "symbol", v |-> PyStr(Upper(symbol))],
                  [k |-> "side", v |-> PyStr(Upper(side))],
                  [k |-> "type", v |-> PyStr(binance_type)],
                  [k |-> "quantity", v |-> quantity]>>
    IN [ok |-> TRUE,
        params |-> DictSet(base, "timeInForce",
                           IF Truthy(time_in_force) THEN time_in_force ELSE PyStr(GTC))]

place_order_params(symbol, side, order_type, quantity, price, stop_price, time_in_force) ==
    LET order_type_upper == Upper(order_type)
        binance_type == IF order_type_upper = STOP_LIMIT THEN STOP ELSE order_type_upper
        base == <<[k |-> "symbol", v |-> PyStr(Upper(symbol))],
                  [k |-> "side", v |-> PyStr(Upper(side))],
                  [k |-> "type", v |-> PyStr(binance_type)],
                  [k |-> "quantity", v |-> quantity]>>
        tif == IF Truthy(time_in_force) THEN time_in_force ELSE PyStr(GTC)
    IN IF order_type_upper = LIMIT THEN
           IF price.t = "none" THEN [ok |-> FALSE, params |-> base]
           ELSE [ok |-> TRUE,
                 params |-> DictSet(DictSet(base, "price", price), "timeInForce", tif)]
       ELSE IF order_type_upper = STOP_LIMIT THEN
           IF price.t = "none" \/ stop_price.t = "none" THEN [ok |-> FALSE, params |-> base]
           ELSE [ok |-> TRUE,
                 params |-> DictSet(DictSet(DictSet(base, "price", price),
                                            "stopPrice", stop_price), "timeInForce", tif)]
       ELSE [ok |-> TRUE, params |-> base]

(* ------------------------------ responses ----------------------------- *)
BodyKeys == {"code", "msg", "orderId", "status", "executedQty", "avgPrice"}

NoFields == [k \in BodyKeys |-> Absent]

NoData == [kind |-> "none", f |-> NoFields]

NonJsonPrefix ==
    <<"N", "o", "n", "-", "J", "S", "O", "N", " ", "r", "e", "s", "p", "o", "n", "s", "e",
      ":", " ">>

\* the text of a JSON object is only logged, never read: one token stands for it
ObjectText == <<"{...}">>

CodeValues == {Absent, PyInt(0), PyInt(0 - 2010), PyNone}
MsgValues == {Absent, PyStr(<<"m">>)}
OrderIdValues == {Absent, PyInt(123), PyStr(<<"1", "2">>), PyStr(<<"a", "b">>)}
AvgPriceValues == {Absent, PyStr(<<>>), PyStr(<<"1", ".", "5">>), PyNone}
\* status and executedQty: both absent, or both present
RestValues == {<<Absent, Absent>>, <<PyStr(<<"N", "E", "W">>), PyStr(<<"0">>)>>}

ObjectBodies ==
    {[kind |-> "dict",
      f |-> [k \in BodyKeys |->
               CASE k = "code" -> c [] k = "msg" -> m [] k = "orderId" -> o
                 [] k = "avgPrice" -> a [] k = "status" -> r[1] [] OTHER -> r[2]]] :
        c \in CodeValues, m \in MsgValues, o \in OrderIdValues,
        a \in AvgPriceValues, r \in RestValues}

StatusCodes == {200, 400}

\* what the transport may answer: [status_code, text, json_ok, data];
\* json_ok = FALSE stands for resp.json() raising ValueError
Responses ==
    {[status_code |-> st, text |-> tx, json_ok |-> FALSE, data |-> NoData] :
        st \in StatusCodes, tx \in {<<>>, <<"<", "h", ">">>}}
    \cup {[status_code |-> st, text |-> <<"[", "]">>, json_ok |-> TRUE,
           data |-> [kind |-> "list", f |-> NoFields]] : st \in StatusCodes}
    \cup {[status_code |-> st, text |-> ObjectText, json_ok |-> TRUE, data |-> b] :
        st \in StatusCodes, b \in ObjectBodies}

NoResponse == [status_code |-> 0, text |-> <<>>, json_ok |-> FALSE, data |-> NoData]

\* data.get(k) / data.get(k, default) on a dict body
Get(data, k) == IF data.f[k].t = "absent" THEN PyNone ELSE data.f[k]
GetOr(data, k, default) == IF data.f[k].t = "absent" THEN default ELSE data.f[k]

(* ------------------------ _signed_request, classification ------------- *)
\* resp.json() raised ValueError
NonJsonError_RawText(r) == BinanceApiError(r.status_code, PyNone, PyStr(r.text))

NonJsonError(r) == BinanceApiError(r.status_code, PyNone, PyStr(NonJsonPrefix \o r.text))

\* resp.status_code >= 400
HttpError(r) ==
    IF r.data.kind = "dict"
    THEN BinanceApiError(r.status_code, Get(r.data, "code"), Get(r.data, "msg"))
    ELSE BinanceApiError(r.status_code, PyNone, PyStr(r.text))

\* isinstance(data, dict) and "code" in data and data.get("code", 0) != 0
HasErrorCode_Never(d) == FALSE

HasErrorCode(d) ==
    d.kind = "dict" /\ d.f["code"].t # "absent" /\ PyNeZero(GetOr(d, "code", PyInt(0)))

\* the part of _signed_request after the response arrived:
\* [raised, exc, data]
ClassifyResponse(r) ==
    IF ~r.json_ok THEN [raised |-> TRUE, exc |-> NonJsonError(r), data |-> NoData]
    ELSE IF r.status_code >= 400 THEN [raised |-> TRUE, exc |-> HttpError(r), data |-> NoData]
    ELSE IF HasErrorCode(r.data)
    THEN [raised |-> TRUE,
          exc |-> BinanceApiError(r.status_code, Get(r.data, "code"),
                                  GetOr(r.data, "msg", PyStr(<<>>))),
          data |-> NoData]
    ELSE [raised |-> FALSE, exc |-> NoExc, data |-> r.data]

(* ------------------------ place_order, the result --------------------- *)
NoResult ==
    [set |-> FALSE, order_id |-> 0, status |-> PyNone, executed_qty |-> PyNone,
     avg_price |-> PyNone, raw |-> NoData]

UNKNOWN == <<"U", "N", "K", "N", "O", "W", "N">>

\* int(data.get("orderId")): [ok, v, err]
OrderIdOf_DefaultZero(d) ==
    LET x == GetOr(d, "orderId", PyInt(0))
    IN IF x.t \in {"int", "float"} THEN [ok |-> TRUE, v |-> x.i, err |-> "none"]
       ELSE IF x.t = "str" /\ IsIntLiteral(x.s)
       THEN [ok |-> TRUE, v |-> IntLiteralVal(x.s), err |-> "none"]
       ELSE [ok |-> TRUE, v |-> 0, err |-> "none"]

OrderIdOf(d) ==
    LET x == Get(d, "orderId")
    IN IF x.t \in {"int", "float"} THEN [ok |-> TRUE, v |-> x.i, err |-> "none"]
       ELSE IF x.t = "none" THEN [ok |-> FALSE, v |-> 0, err |-> "TypeError"]
       ELSE IF IsIntLiteral(x.s) THEN [ok |-> TRUE, v |-> IntLiteralVal(x.s), err |-> "none"]
       ELSE [ok |-> FALSE, v |-> 0, err |-> "ValueError"]

\* data.get("avgPrice") or data.get("avgPrice", None)
AvgPriceOf(d) ==
    IF Truthy(Get(d, "avgPrice")) THEN Get(d, "avgPrice") ELSE GetOr(d, "avgPrice", PyNone)

\* the part of place_order after _signed_request returned: [ok, err, result]
ExtractResult(d) ==
    IF d.kind # "dict" THEN [ok |-> FALSE, err |-> "AttributeError", result |-> NoResult]
    ELSE IF ~OrderIdOf(d).ok THEN [ok |-> FALSE, err |-> OrderIdOf(d).err, result |-> NoResult]
    ELSE [ok |-> TRUE, err |-> "none",
          result |-> [set |-> TRUE,
                      order_id |-> OrderIdOf(d).v,
                      status |-> GetOr(d, "status", PyStr(UNKNOWN)),
                      executed_qty |-> GetOr(d, "executedQty", PyStr(<<"0">>)),
                      avg_price |-> IF AvgPriceOf(d).t # "none"
                                    THEN PyStr(PyStrOf(AvgPriceOf(d))) ELSE PyNone,
                      raw |-> d]]

(* ------------------------------ cli ----------------------------------- *)
\* the except clauses of handle_order
CaughtKinds == {"ValidationError", "BinanceApiError", "BinanceNetworkError"}

\* what each except clause returns
ExceptReturn_ApiZero(kind) == IF kind = "BinanceApiError" THEN 0 ELSE 1

ExceptReturn(kind) ==
    CASE kind = "ValidationError" -> 1
      [] kind = "BinanceApiError" -> 1
      [] kind = "BinanceNetworkError" -> 1

\* an exception that leaves main ends the interpreter with status 1
UncaughtExit == 1

(* ------------------------------ state --------------------------------- *)
VARIABLES
    args,             \* the arguments of handle_order
    env,              \* BINANCE_API_KEY, BINANCE_API_SECRET
    pc,               \* where the run is
    caller,           \* who called _signed_request: "place_order" or "direct"
    norm,             \* what validate_order_request returned
    method,           \* _signed_request's method
    params,           \* _signed_request's params dict
    query_string,     \* the canonical query string that was signed
    signature,        \* its signature
    sent,             \* the HTTP requests handed to the transport, in order
    resp,             \* the response received
    data,             \* what _signed_request returned
    result,           \* the OrderResult
    exc,              \* the exception raised, if any
    pending_return,   \* the value an except clause returns once finally ran
    transport,        \* the client's httpx.Client: "none", "open", "closed"
    close_count,      \* how many times it was closed
    used_after_close, \* whether a request was made on a closed transport
    exit_code         \* the process exit code, -1 while running

vars ==
    <<args, env, pc, caller, norm, method, params, query_string, signature, sent, resp,
      data, result, exc, pending_return, transport, close_count, used_after_close,
      exit_code>>

NoNorm ==
    [ok |-> FALSE, symbol |-> <<>>, side |-> <<>>, order_type |-> <<>>,
     quantity |-> PyNone, price |-> PyNone, stop_price |-> PyNone]

Symbols == {<<>>, <<" ">>, <<" ", "b", "t", "c", " ">>}
Sides == {<<"b", "u", "y">>, <<"S", "E", "L", "L", " ">>, <<"x">>}
OrderTypes ==
    {<<"m", "a", "r", "k", "e", "t">>, <<" ", "L", "I", "M", "I", "T">>,
     <<"S", "t", "o", "p", "_", "L", "i", "m", "i", "t">>, <<"S", "T", "O", "P">>}
Numbers == {PyFloat(n) : n \in MinNum .. MaxNum}
Methods == {<<"G", "E", "T">>, <<"g", "e", "t">>, <<"P", "O", "S", "T">>,
            <<"D", "E", "L", "E", "T", "E">>}
POST == <<"P", "O", "S", "T">>
GET == <<"G", "E", "T">>

ArgSet ==
    [symbol : Symbols, side : Sides, order_type : OrderTypes, quantity : Numbers,
     price : Numbers \cup {PyNone}, stop_price : Numbers \cup {PyNone}]

EnvSet ==
    {[api_key |-> PyNone, api_secret |-> PyStr(<<"s">>)],
     [api_key |-> PyStr(<<"k">>), api_secret |-> PyStr(<<>>)],
     [api_key |-> PyStr(<<"k">>), api_secret |-> PyStr(<<"s">>)]}

Init ==
    /\ args \in ArgSet
    /\ env \in EnvSet
    /\ pc = "start"
    /\ caller = "place_order"
    /\ norm = NoNorm
    /\ method = <<>>
    /\ params = <<>>
    /\ query_string = <<>>
    /\ signature = <<>>
    /\ sent = <<>>
    /\ resp = NoResponse
    /\ data = NoData
    /\ result = NoResult
    /\ exc = NoExc
    /\ pending_return = -1
    /\ transport = "none"
    /\ close_count = 0
    /\ used_after_close = FALSE
    /\ exit_code = -1

\* where a raised exception goes: the try of handle_order, or out of a direct call
RaiseTarget == IF caller = "place_order" THEN "except" ELSE "raised"

(* ------------------------------ actions ------------------------------- *)
\* handle_order up to the try: the credentials check, the client's construction
HandleOrderEnter ==
    /\ pc = "start"
    /\ IF ~Truthy(env.api_key) \/ ~Truthy(env.api_secret)
       THEN /\ exit_code' = 1
            /\ pc' = "exit"
            /\ UNCHANGED transport
       ELSE /\ transport' = "open"
            /\ pc' = "validate"
            /\ UNCHANGED exit_code
    /\ UNCHANGED <<args, env, caller, norm, method, params, query_string, signature, sent,
                   resp, data, result, exc, pending_return, close_count, used_after_close>>

\* place_order_with_validation up to the call of client.place_order
ValidateOrder ==
    /\ pc = "validate"
    /\ LET r == validate_order_request(args)
       IN IF r.ok
          THEN /\ norm' = r
               /\ pc' = "place_order"
               /\ UNCHANGED exc
          ELSE /\ exc' = Raise("ValidationError")
               /\ pc' = RaiseTarget
               /\ UNCHANGED norm
    /\ UNCHANGED <<args, env, caller, method, params, query_string, signature, sent, resp,
                   data, result, pending_return, transport, close_count, used_after_close,
                   exit_code>>

\* place_order up to the call of _signed_request("POST", ...)
PlaceOrderBuild ==
    /\ pc = "place_order"
    /\ LET b == place_order_params(norm.symbol, norm.side, norm.order_type, norm.quantity,
                                   norm.price, norm.stop_price, PyStr(GTC))
       IN IF b.ok
          THEN /\ params' = b.params
               /\ method' = POST
               /\ pc' = "signed_request"
               /\ UNCHANGED exc
          ELSE /\ exc' = Raise("ValueError")
               /\ pc' = RaiseTarget
               /\ UNCHANGED <<params, method>>
    /\ UNCHANGED <<args, env, caller, norm, query_string, signature, sent, resp, data,
                   result, pending_return, transport, close_count, used_after_close,
                   exit_code>>

\* _signed_request up to the try: timestamp, recvWindow, the query string, its signature
SignedRequestPrepare ==
    /\ pc = "signed_request"
    /\ \E now \in 1 .. MaxTime :
          LET p == DictSet(DictSet(params, "timestamp", PyInt(now)),
                           "recvWindow", PyInt(RecvWindow))
              q == JoinItems(p, SortedKeys(p))
          IN /\ params' = p
             /\ query_string' = q
             /\ signature' = _sign(env.api_secret.s, q)
    /\ pc' = "send"
    /\ UNCHANGED <<args, env, caller, norm, method, sent, resp, data, result, exc,
                   pending_return, transport, close_count, used_after_close, exit_code>>

\* what the client hands to the transport: GET passes the params dict (httpx renders it
\* in insertion order), any other method the signed query string
WireRequest ==
    IF Upper(method) = GET
    THEN [method |-> Upper(method), query |-> JoinItems(params, InsertionKeys(params))]
    ELSE [method |-> Upper(method),
          query |-> query_string \o <<"&", "signature", "=">> \o signature]

\* the request is made and a response arrives
TransportResponds ==
    /\ pc = "send"
    /\ sent' = Append(sent, WireRequest)
    /\ used_after_close' = (used_after_close \/ transport # "open")
    /\ \E r \in Responses : resp' = r
    /\ pc' = "classify"
    /\ UNCHANGED <<args, env, caller, norm, method, params, query_string, signature, data,
                   result, exc, pending_return, transport, close_count, exit_code>>

\* the request is made and the transport raises httpx.HTTPError
TransportRaises_Retry ==
    /\ pc = "send"
    /\ Len(sent) < 3
    /\ sent' = Append(sent, WireRequest)
    /\ used_after_close' = (used_after_close \/ transport # "open")
    /\ exc' = Raise("BinanceNetworkError")
    /\ UNCHANGED <<args, env, pc, caller, norm, method, params, query_string, signature,
                   resp, data, result, pending_return, transport, close_count, exit_code>>

TransportRaises ==
    /\ pc = "send"
    /\ sent' = Append(sent, WireRequest)
    /\ used_after_close' = (used_after_close \/ transport # "open")
    /\ exc' = Raise("BinanceNetworkError")
    /\ pc' = RaiseTarget
    /\ UNCHANGED <<args, env, caller, norm, method, params, query_string, signature, resp,
                   data, result, pending_return, transport, close_count, exit_code>>

\* _signed_request after the response: parse, classify, raise or return
SignedRequestFinish ==
    /\ pc = "classify"
    /\ LET c == ClassifyResponse(resp)
       IN IF c.raised
          THEN /\ exc' = c.exc
               /\ pc' = RaiseTarget
               /\ UNCHANGED data
          ELSE /\ data' = c.data
               /\ pc' = IF caller = "place_order" THEN "extract" ELSE "returned"
               /\ UNCHANGED exc
    /\ UNCHANGED <<args, env, caller, norm, method, params, query_string, signature, sent,
                   resp, result, pending_return, transport, close_count, used_after_close,
                   exit_code>>

\* place_order after _signed_request returned, and the return through
\* place_order_with_validation to handle_order
PlaceOrderExtract ==
    /\ pc = "extract"
    /\ LET e == ExtractResult(data)
       IN IF e.ok
          THEN /\ result' = e.result
               /\ pc' = "finally"
               /\ UNCHANGED exc
          ELSE /\ exc' = Raise(e.err)
               /\ pc' = "except"
               /\ UNCHANGED result
    /\ UNCHANGED <<args, env, caller, norm, method, params, query_string, signature, sent,
                   resp, data, pending_return, transport, close_count, used_after_close,
                   exit_code>>

\* the except clauses of handle_order: a caught kind sets the return value, any other
\* exception stays pending
ExceptClauses ==
    /\ pc = "except"
    /\ pending_return' = IF exc.kind \in CaughtKinds THEN ExceptReturn(exc.kind) ELSE -1
    /\ pc' = "finally"
    /\ UNCHANGED <<args, env, caller, norm, method, params, query_string, signature, sent,
                   resp, data, result, exc, transport, close_count, used_after_close,
                   exit_code>>

\* finally: client.close(), then the pending return, the pending exception, or on
FinallyClose_NotOnUncaught ==
    /\ pc = "finally"
    /\ IF exc.kind # "none" /\ exc.kind \notin CaughtKinds
       THEN UNCHANGED <<transport, close_count>>
       ELSE transport' = "closed" /\ close_count' = close_count + 1
    /\ IF exc.kind = "none" THEN pc' = "render" /\ UNCHANGED exit_code
       ELSE IF pending_return # -1 THEN pc' = "exit" /\ exit_code' = pending_return
       ELSE pc' = "propagate" /\ UNCHANGED exit_code
    /\ UNCHANGED <<args, env, caller, norm, method, params, query_string, signature, sent,
                   resp, data, result, exc, pending_return, used_after_close>>

FinallyClose ==
    /\ pc = "finally"
    /\ transport' = "closed"
    /\ close_count' = close_count + 1
    /\ IF exc.kind = "none" THEN pc' = "render" /\ UNCHANGED exit_code
       ELSE IF pending_return # -1 THEN pc' = "exit" /\ exit_code' = pending_return
       ELSE pc' = "propagate" /\ UNCHANGED exit_code
    /\ UNCHANGED <<args, env, caller, norm, method, params, query_string, signature, sent,
                   resp, data, result, exc, pending_return, used_after_close>>

\* handle_order after the try: the table, return 0
RenderResult ==
    /\ pc = "render"
    /\ exit_code' = 0
    /\ pc' = "exit"
    /\ UNCHANGED <<args, env, caller, norm, method, params, query_string, signature, sent,
                   resp, data, result, exc, pending_return, transport, close_count,
                   used_after_close>>

\* an exception no clause caught leaves handle_order and main
PropagateUncaught ==
    /\ pc = "propagate"
    /\ exit_code' = UncaughtExit
    /\ pc' = "crashed"
    /\ UNCHANGED <<args, env, caller, norm, method, params, query_string, signature, sent,
                   resp, data, result, exc, pending_return, transport, close_count,
                   used_after_close>>

Next ==
    \/ HandleOrderEnter
    \/ ValidateOrder
    \/ PlaceOrderBuild
    \/ SignedRequestPrepare
    \/ TransportResponds
    \/ TransportRaises
    \/ SignedRequestFinish
    \/ PlaceOrderExtract
    \/ ExceptClauses
    \/ FinallyClose
    \/ RenderResult
    \/ PropagateUncaught

Spec == Init /\ [][Next]_vars

(* ------------- _signed_request called directly, with any method ------- *)
\* the params dicts place_order builds for the valid orders, and the empty dict
DispatchParams ==
    {<<>>}
    \cup {place_order_params(validate_order_request(a).symbol, validate_order_request(a).side,
                             validate_order_request(a).order_type,
                             validate_order_request(a).quantity,
                             validate_order_request(a).price,
                             validate_order_request(a).stop_price, PyStr(GTC)).params :
            a \in {x \in ArgSet : validate_order_request(x).ok}}

InitDispatch ==
    /\ args \in {a \in ArgSet : a.symbol = <<>> /\ a.side = <<"x">> /\ a.quantity = PyFloat(0)
                                /\ a.price = PyNone /\ a.stop_price = PyNone
                                /\ a.order_type = <<"S", "T", "O", "P">>}
    /\ env = [api_key |-> PyStr(<<"k">>), api_secret |-> PyStr(<<"s">>)]
    /\ pc = "signed_request"
    /\ caller = "direct"
    /\ norm = NoNorm
    /\ method \in Methods
    /\ params \in DispatchParams
    /\ query_string = <<>>
    /\ signature = <<>>
    /\ sent = <<>>
    /\ resp = NoResponse
    /\ data = NoData
    /\ result = NoResult
    /\ exc = NoExc
    /\ pending_return = -1
    /\ transport = "open"
    /\ close_count = 0
    /\ used_after_close = FALSE
    /\ exit_code = -1

NextDispatch ==
    \/ SignedRequestPrepare
    \/ TransportResponds
    \/ TransportRaises
    \/ SignedRequestFinish

SpecDispatch == InitDispatch /\ [][NextDispatch]_vars

(* ------------------------------ claims -------------------------------- *)
PriceKeys == {"price", "stopPrice", "timeInForce"}

\* _signed_request has finished with the response it received
Classified == resp # NoResponse /\ pc # "classify"

\* C1: an order whose type normalizes to MARKET never carries price, stopPrice or
\* timeInForce, in the params handed to _signed_request or in any request sent,
\* whatever was passed as price and stop_price.
C1_MarketOmitsPriceFields ==
    Upper(Strip(args.order_type)) = MARKET =>
        /\ DictKeys(params) \cap PriceKeys = {}
        /\ \A n \in 1 .. Len(sent) :
              \A j \in 1 .. Len(sent[n].query) : sent[n].query[j] \notin PriceKeys

C1_Witness ==
    /\ Upper(Strip(args.order_type)) = MARKET
    /\ args.price.t = "float" /\ args.price.i > 0
    /\ args.stop_price.t = "float" /\ args.stop_price.i < 0
    /\ Len(sent) = 1
    /\ DictHas(params, "timestamp")

\* the inputs C2 lists
InvalidInput(a) ==
    LET ty == Upper(Strip(a.order_type))
        bad(v) == v.t = "none" \/ v.i <= 0
    IN \/ Len(Strip(a.symbol)) = 0
       \/ Upper(Strip(a.side)) \notin {BUY, SELL}
       \/ ty \notin {MARKET, LIMIT, STOP_LIMIT}
       \/ a.quantity.i <= 0
       \/ ty = LIMIT /\ bad(a.price)
       \/ ty = STOP_LIMIT /\ (bad(a.price) \/ bad(a.stop_price))

\* C2: an input that fails validation ends place_order_with_validation in a
\* ValidationError, and no HTTP request is ever sent for it.
C2_InvalidInputRaisesBeforeNetwork ==
    InvalidInput(args) =>
        /\ Len(sent) = 0
        /\ (transport # "none" /\ pc # "validate") => exc.kind = "ValidationError"

C2_Witness ==
    /\ InvalidInput(args)
    /\ args.quantity.i = 0
    /\ validate_order_request([args EXCEPT !.quantity = PyFloat(1)]).ok
    /\ pc = "exit"
    /\ exc.kind = "ValidationError"
    /\ Len(sent) = 0

\* C3: for a parsed response with status < 400, BinanceApiError (with that status, the
\* body's code and msg) is raised exactly when the body is an object with a code
\* field whose value is not zero; otherwise the parsed body is returned.
C3_LogicalErrorOnSuccessStatus ==
    (Classified /\ resp.json_ok /\ resp.status_code < 400) =>
        IF /\ resp.data.kind = "dict"
           /\ resp.data.f["code"].t # "absent"
           /\ ~(resp.data.f["code"].t \in {"int", "float"} /\ resp.data.f["code"].i = 0)
        THEN /\ exc.kind = "BinanceApiError"
             /\ exc.status_code = resp.status_code
             /\ exc.code = (IF resp.data.f["code"].t = "none" THEN PyNone
                            ELSE resp.data.f["code"])
             /\ exc.msg = (IF resp.data.f["msg"].t = "absent" THEN PyStr(<<>>)
                           ELSE resp.data.f["msg"])
             /\ data = NoData
        ELSE /\ data = resp.data
             /\ exc.kind # "BinanceApiError"

C3_Witness ==
    /\ Classified
    /\ resp.status_code = 200
    /\ resp.data.f["code"] = PyInt(0 - 2010)
    /\ exc.kind = "BinanceApiError"
    /\ exc.code = PyInt(0 - 2010)
    /\ pc = "exit"

\* C4 (as amended): a response whose body does not parse raises BinanceApiError with
\* the HTTP status, a null code, and the message "Non-JSON response: " followed by
\* the raw response text.
C4_NonJsonMessagePrefixed ==
    (Classified /\ ~resp.json_ok) =>
        exc = BinanceApiError(resp.status_code, PyNone, PyStr(NonJsonPrefix \o resp.text))

\* C4 as stated: the message is the raw response text.
C4_NonJsonMessageIsRawText ==
    (Classified /\ ~resp.json_ok) =>
        exc = BinanceApiError(resp.status_code, PyNone, PyStr(resp.text))

C4_Witness ==
    /\ Classified
    /\ ~resp.json_ok
    /\ resp.status_code = 400
    /\ Len(resp.text) > 0
    /\ exc.kind = "BinanceApiError"
    /\ pc = "exit"

\* a success body whose orderId is absent or not numeric, or that is not an object
MalformedSuccess ==
    /\ data # NoData
    /\ pc # "extract"
    /\ \/ data.kind # "dict"
       \/ data.f["orderId"].t \in {"absent", "none"}
       \/ data.f["orderId"].t = "str" /\ ~IsIntLiteral(data.f["orderId"].s)

\* C5 (as amended): a success body whose orderId is absent or not numeric, or that is
\* not an object, never yields an OrderResult: place_order raises a built-in exception
\* (AttributeError for a body that is not an object, TypeError for an absent orderId,
\* ValueError for a non-numeric one) that no except clause of handle_order catches,
\* so it leaves the command uncaught.
C5_MalformedSuccessRaisesBuiltin ==
    MalformedSuccess =>
        /\ ~result.set
        /\ exc.kind = (IF data.kind # "dict" THEN "AttributeError"
                       ELSE IF data.f["orderId"].t = "str" THEN "ValueError"
                       ELSE "TypeError")
        /\ exc.kind \notin CaughtKinds
        /\ pc \in {"except", "finally", "propagate", "crashed"}
        /\ pending_return = -1

\* C5 as stated: the error is an UnexpectedResponseError.
C5_MalformedSuccessRaisesUnexpectedResponse ==
    MalformedSuccess => (~result.set /\ exc.kind = "UnexpectedResponseError")

C5_Witness ==
    /\ MalformedSuccess
    /\ data.kind = "dict"
    /\ data.f["orderId"].t = "str"
    /\ exc.kind = "ValueError"
    /\ pc = "crashed"

\* C6: avg_price is None when the body's avgPrice is absent or the empty string, and
\* the stringified value when avgPrice is present and not empty.
C6_AvgPriceNoneWhenAbsentOrEmpty ==
    result.set =>
        LET a == result.raw.f["avgPrice"]
        IN IF a.t = "absent" \/ (a.t = "str" /\ Len(a.s) = 0)
           THEN result.avg_price = PyNone
           ELSE a.t # "none" => result.avg_price = PyStr(PyStrOf(a))

\* C7: once a client exists, its transport is closed before the command ends, on
\* every exit path; it is closed exactly once and never used after it was closed.
C7_TransportClosedOnce ==
    /\ close_count <= 1
    /\ ~used_after_close
    /\ (transport = "closed") = (close_count = 1)
    /\ (pc \in {"exit", "crashed"} /\ transport # "none") => transport = "closed"

C7_Witness ==
    /\ pc = "crashed"
    /\ exc.kind \notin CaughtKinds
    /\ transport = "closed"
    /\ close_count = 1

\* C8: one call sends at most one HTTP request, and once a BinanceApiError or a
\* BinanceNetworkError is raised no further request is sent.
C8_SingleAttempt ==
    /\ [](Len(sent) <= 1)
    /\ [][exc.kind \in {"BinanceApiError", "BinanceNetworkError"} => sent' = sent]_vars

C8_Witness ==
    /\ pc = "exit"
    /\ exc.kind = "BinanceNetworkError"
    /\ Len(sent) = 1

\* the command has ended with an error raised while placing the order
ErrorExit == pc \in {"exit", "crashed"} /\ exc.kind # "none"

\* C9 (as amended): every error kind ends the command with the non-zero exit code 1,
\* the same for all kinds; only a placed order ends it with 0.
C9_EveryErrorExitsOne ==
    /\ ErrorExit => exit_code = 1
    /\ (pc \in {"exit", "crashed"} /\ exit_code = 0) => (exc.kind = "none" /\ result.set)

\* C9 as stated: the exit code of an error is non-zero and is not the exit code of
\* any other error kind.
C9_ExitCodesDistinct ==
    ErrorExit =>
        /\ exit_code # 0
        /\ \A k \in CaughtKinds : k # exc.kind => ExceptReturn(k) # exit_code

C9_Witness ==
    /\ ErrorExit
    /\ exc.kind = "BinanceApiError"
    /\ exit_code = 1

\* C10: whatever the method, each request sent carries the key-sorted parameters
\* (timestamp and recvWindow included) that were signed, in that canonical form,
\* followed by the signature of exactly that string.
C10_SentIsSignedCanonical ==
    \A n \in 1 .. Len(sent) :
        LET canonical == JoinItems(params, SortedKeys(params))
        IN sent[n].query =
              canonical \o <<"&", "signature", "=">> \o _sign(env.api_secret.s, canonical)

====
